---- MODULE Spec2Model ----
(***************************************************************************)
(* Model of cgt_calc/currency_converter.py: the CurrencyConverter rate     *)
(* cache, its CSV persistence, the HMRC endpoint selection and the lazy    *)
(* fetch on a cache miss.                                                  *)
(*                                                                         *)
(* Text is a sequence of one-character strings, so that str.upper(),       *)
(* str(Decimal), Decimal(str), date.isoformat() and date.fromisoformat()   *)
(* are computed and not assumed. A Python dict is a sequence of            *)
(* <<key, value>> pairs with distinct keys, in insertion order.            *)
(***************************************************************************)
EXTENDS Integers, Sequences, FiniteSets, TLC

VARIABLES
    exchange_rates_file,  \* self.exchange_rates_file: None or a path
    disk,                 \* what the file system holds at that path
    cache,                \* self.cache
    pc,                   \* position of the running call ("idle" between calls)
    frame,                \* arguments and locals of the running call (the response as its digest)
    result,               \* how the last call ended: a return value or a raised exception
    gets,                 \* session.get calls issued by the running (or last) call
    fetches,              \* successful _query_hmrc_api runs of this instance
    before                \* cache and disk as they were when the running call started

vars == <<exchange_rates_file, disk, cache, pc, frame, result, gets, fetches, before>>

----------------------------------------------------------------------------
(* Python values *)

\* Python's None. It is a sequence so that it can be compared with text;
\* no text equals it, since text holds one-character strings only.
None == <<"None">>

\* str(None)
StrNone == <<"N", "o", "n", "e">>

\* str(x) for x a text or None
Str(x) == IF x = None THEN StrNone ELSE x

LowerCase == <<"a","b","c","d","e","f","g","h","i","j","k","l","m",
               "n","o","p","q","r","s","t","u","v","w","x","y","z">>
UpperCase == <<"A","B","C","D","E","F","G","H","I","J","K","L","M",
               "N","O","P","Q","R","S","T","U","V","W","X","Y","Z">>

UpperChar(ch) ==
    IF \E i \in 1..26 : LowerCase[i] = ch
    THEN UpperCase[CHOOSE i \in 1..26 : LowerCase[i] = ch]
    ELSE ch

\* str.upper()
Upper(s) == [i \in 1..Len(s) |-> UpperChar(s[i])]

Digits == <<"0","1","2","3","4","5","6","7","8","9">>
IsDigit(ch) == \E i \in 1..10 : Digits[i] = ch
DigitVal(ch) == (CHOOSE i \in 1..10 : Digits[i] = ch) - 1
DigitChar(n) == Digits[n + 1]

RECURSIVE Repeat(_, _)
Repeat(x, n) == IF n <= 0 THEN <<>> ELSE <<x>> \o Repeat(x, n - 1)

\* int(digits) for a text of digits
RECURSIVE IntOf(_)
IntOf(s) == IF s = <<>> THEN 0
            ELSE 10 * IntOf(SubSeq(s, 1, Len(s) - 1)) + DigitVal(s[Len(s)])

\* str(n) for n >= 0
RECURSIVE StrOfInt(_)
StrOfInt(n) == IF n < 10 THEN <<DigitChar(n)>>
               ELSE StrOfInt(n \div 10) \o <<DigitChar(n % 10)>>

\* n zero-padded on the left to width w
Pad(n, w) == Repeat("0", w - Len(StrOfInt(n))) \o StrOfInt(n)

\* how a call ends: return v, or raise e(*args)
Return(v) == [kind |-> "return", value |-> v, args |-> <<>>]
RaiseWith(e, args) == [kind |-> "raise", value |-> e, args |-> args]
Raise(e) == RaiseWith(e, <<>>)
Raised(r, e) == r.kind = "raise" /\ r.value = e

----------------------------------------------------------------------------
(* dict *)

EmptyDict == <<>>
DictKeys(d) == {d[i][1] : i \in 1..Len(d)}
DictHas(d, k) == \E i \in 1..Len(d) : d[i][1] = k
DictGet(d, k) == d[CHOOSE i \in 1..Len(d) : d[i][1] = k][2]
\* d[k] = v: an existing key keeps its place, a new key goes last
DictSet(d, k, v) ==
    IF DictHas(d, k)
    THEN [i \in 1..Len(d) |-> IF d[i][1] = k THEN <<k, v>> ELSE d[i]]
    ELSE Append(d, <<k, v>>)
\* {**a, **b}
RECURSIVE DictMerge(_, _)
DictMerge(a, b) ==
    IF b = <<>> THEN a
    ELSE DictMerge(DictSet(a, b[1][1], b[1][2]), Tail(b))

----------------------------------------------------------------------------
(* decimal.Decimal: coefficient digits _int (no leading zero unless "0")   *)
(* and exponent _exp <= 0. Only non-negative finite values are modelled.   *)
(* A Decimal is a tagged tuple, so that it can be compared with None.      *)

Dec(int, exp) == <<"Decimal", int, exp>>
DecInt(d) == d[2]
DecExp(d) == d[3]

\* a text that Decimal() accepts, within the modelled grammar digits[.digits]
IsDecimalText(s) ==
    /\ s # None
    /\ \E i \in 1..Len(s) : IsDigit(s[i])
    /\ \A i \in 1..Len(s) : IsDigit(s[i]) \/ s[i] = "."
    /\ Cardinality({i \in 1..Len(s) : s[i] = "."}) <= 1

StripZeros(s) == StrOfInt(IntOf(s))

\* Decimal(s) for an accepted text
DecimalOf(s) ==
    LET dots == {i \in 1..Len(s) : s[i] = "."}
        p == IF dots = {} THEN Len(s) + 1 ELSE CHOOSE i \in dots : TRUE
        intpart == SubSeq(s, 1, p - 1)
        fracpart == SubSeq(s, p + 1, Len(s))
    IN Dec(StripZeros(intpart \o fracpart), 0 - Len(fracpart))

\* str(d), Decimal.__str__ for _exp <= 0 and more than -6 left digits
DecimalStr(d) ==
    LET leftdigits == DecExp(d) + Len(DecInt(d))
    IN IF DecExp(d) = 0 THEN DecInt(d)
       ELSE IF leftdigits <= 0
            THEN <<"0", ".">> \o Repeat("0", 0 - leftdigits) \o DecInt(d)
            ELSE SubSeq(DecInt(d), 1, leftdigits) \o <<".">>
                 \o SubSeq(DecInt(d), leftdigits + 1, Len(DecInt(d)))

IsZero(d) == IntOf(DecInt(d)) = 0

RECURSIVE Pow10(_)
Pow10(n) == IF n <= 0 THEN 1 ELSE 10 * Pow10(n - 1)

RECURSIVE Gcd(_, _)
Gcd(a, b) == IF b = 0 THEN a ELSE Gcd(b, a % b)

\* a / b for a nonzero divisor: the quotient as a fraction in lowest terms.
\* (The rounding to the context's 28 digits is outside the modelled range.)
Quotient(a, b) ==
    LET lo == IF DecExp(a) < DecExp(b) THEN DecExp(a) ELSE DecExp(b)
        n == IntOf(DecInt(a)) * Pow10(DecExp(a) - lo)
        m == IntOf(DecInt(b)) * Pow10(DecExp(b) - lo)
        g == Gcd(n, m)
    IN <<"Fraction", n \div g, m \div g>>

\* Decimal.__truediv__
DecimalDiv(a, b) ==
    IF IsZero(b)
    THEN IF IsZero(a) THEN Raise("InvalidOperation") ELSE Raise("DivisionByZero")
    ELSE Return(Quotient(a, b))

----------------------------------------------------------------------------
(* datetime.date *)

Date(y, m, d) == [year |-> y, month |-> m, day |-> d]

IsLeap(y) == (y % 4 = 0 /\ y % 100 # 0) \/ y % 400 = 0
DaysInMonth(y, m) ==
    IF m = 2 THEN (IF IsLeap(y) THEN 29 ELSE 28)
    ELSE IF m \in {4, 6, 9, 11} THEN 30 ELSE 31

\* str(date) == date.isoformat(): YYYY-MM-DD
IsoFormat(d) == Pad(d.year, 4) \o <<"-">> \o Pad(d.month, 2) \o <<"-">> \o Pad(d.day, 2)

\* whether date.fromisoformat accepts the text (the YYYY-MM-DD form)
IsIsoText(s) ==
    /\ s # None
    /\ Len(s) = 10
    /\ s[5] = "-" /\ s[8] = "-"
    /\ \A i \in {1, 2, 3, 4, 6, 7, 9, 10} : IsDigit(s[i])
    /\ IntOf(SubSeq(s, 1, 4)) >= 1
    /\ IntOf(SubSeq(s, 6, 7)) \in 1..12
    /\ IntOf(SubSeq(s, 9, 10)) \in
           1..DaysInMonth(IntOf(SubSeq(s, 1, 4)), IntOf(SubSeq(s, 6, 7)))

FromIsoFormat(s) ==
    Date(IntOf(SubSeq(s, 1, 4)), IntOf(SubSeq(s, 6, 7)), IntOf(SubSeq(s, 9, 10)))

----------------------------------------------------------------------------
(* The persisted file: the rows a csv reader yields, each a sequence of     *)
(* text cells; the first row is the header. A blank line is the row <<>>.   *)

EXCHANGE_RATES_HEADER ==
    << <<"m","o","n","t","h">>, <<"c","u","r","r","e","n","c","y">>, <<"r","a","t","e">> >>
NEW_ENDPOINT_FROM_YEAR == 2021

MONTH == EXCHANGE_RATES_HEADER[1]
CURRENCY == EXCHANGE_RATES_HEADER[2]
RATE == EXCHANGE_RATES_HEADER[3]

NoFile == [is_file |-> FALSE, rows |-> <<>>]
File(rows) == [is_file |-> TRUE, rows |-> rows]

\* the elements of a sequence as a set
Range(s) == {s[i] : i \in 1..Len(s)}

\* csv.DictReader.__next__ skips blank rows: the index of the first
\* non-blank row at or after i, 0 when the reader is exhausted
NextRow(rows, i) ==
    IF \E j \in i..Len(rows) : rows[j] # <<>>
    THEN CHOOSE j \in i..Len(rows) :
             rows[j] # <<>> /\ \A k \in i..(j - 1) : rows[k] = <<>>
    ELSE 0

\* the dict csv.DictReader makes of a row: zip(fieldnames, row), the extra
\* cells under restkey None, the missing cells as restval None
DictReaderLine(fieldnames, row) ==
    LET lf == Len(fieldnames)
        lr == Len(row)
        n == IF lf < lr THEN lf ELSE lr
        zipped == DictMerge(EmptyDict, [i \in 1..n |-> <<fieldnames[i], row[i]>>])
    IN IF lf < lr THEN DictSet(zipped, None, SubSeq(row, lf + 1, lr))
       ELSE DictMerge(zipped, [i \in 1..(lf - lr) |-> <<fieldnames[lr + i], None>>])

\* the body of the for loop of _read_exchange_rates_file for one line:
\* the cache with the line's rate stored, or the exception raised
ReadLine(cache_, line) ==
    IF None \in DictKeys(line) /\ Cardinality(DictKeys(line)) > 1
    THEN Raise("TypeError")  \* sorted() of keys holding None and str
    ELSE IF DictKeys(line) # Range(EXCHANGE_RATES_HEADER)
    THEN Raise("ParsingError")
    ELSE IF DictGet(line, MONTH) = None THEN Raise("TypeError")
    ELSE IF ~IsIsoText(DictGet(line, MONTH)) THEN Raise("ValueError")
    ELSE IF DictGet(line, RATE) = None THEN Raise("TypeError")
    ELSE IF ~IsDecimalText(DictGet(line, RATE)) THEN Raise("InvalidOperation")
    ELSE LET date == FromIsoFormat(DictGet(line, MONTH))
             rates == IF DictHas(cache_, date) THEN DictGet(cache_, date) ELSE EmptyDict
         IN Return(DictSet(cache_, date,
                DictSet(rates, DictGet(line, CURRENCY), DecimalOf(DictGet(line, RATE)))))

\* for line in csv_reader, from row i on
RECURSIVE ReadLines(_, _, _, _)
ReadLines(fieldnames, rows, i, cache_) ==
    LET j == NextRow(rows, i)
    IN IF j = 0 THEN Return(cache_)
       ELSE LET r == ReadLine(cache_, DictReaderLine(fieldnames, rows[j]))
            IN IF r.kind = "raise" THEN r
               ELSE ReadLines(fieldnames, rows, j + 1, r.value)

\* the is_file check of lines 50-51 left out: open() of a missing file raises
_read_exchange_rates_file_unchecked(path, d) ==
    IF path = None THEN Return(EmptyDict)
    ELSE IF ~d.is_file THEN Raise("FileNotFoundError")
    ELSE IF d.rows = <<>> THEN Raise("StopIteration")
    ELSE LET fieldnames == d.rows[1]
             first == NextRow(d.rows, 2)
         IN IF first = 0 THEN Raise("StopIteration")
            ELSE ReadLines(fieldnames, d.rows, first + 1, EmptyDict)

\* CurrencyConverter._read_exchange_rates_file: the table read, or the exception.
\* DictReader takes the first row as its fieldnames, so the next(csv_reader) that
\* the source comments as skipping the header consumes the first data row.
_read_exchange_rates_file(path, d) ==
    IF path = None THEN Return(EmptyDict)
    ELSE IF ~d.is_file THEN Return(EmptyDict)
    ELSE IF d.rows = <<>> THEN Raise("StopIteration")
    ELSE LET fieldnames == d.rows[1]
             first == NextRow(d.rows, 2)
         IN IF first = 0 THEN Raise("StopIteration")
            ELSE ReadLines(fieldnames, d.rows, first + 1, EmptyDict)

\* the cell csv.writer writes for a value: None as the empty text
CsvCell(x) == IF x = None THEN <<>> ELSE x

\* data_rows of _write_exchange_rates_file
RECURSIVE RatesRows(_, _)
RatesRows(month, rates) ==
    IF rates = <<>> THEN <<>>
    ELSE << <<IsoFormat(month), CsvCell(rates[1][1]), DecimalStr(rates[1][2])>> >>
         \o RatesRows(month, Tail(rates))

RECURSIVE DataRows(_)
DataRows(data) ==
    IF data = <<>> THEN <<>>
    ELSE RatesRows(data[1][1], data[1][2]) \o DataRows(Tail(data))

\* the None check of lines 71-72 left out: a converter without a path writes
\* all the same
_write_exchange_rates_file_anypath(path, d, data) ==
    File(<<EXCHANGE_RATES_HEADER>> \o DataRows(data))

\* only the month stored last is written, not the whole table
_write_exchange_rates_file_lastmonth(path, d, data) ==
    IF path = None THEN d
    ELSE File(<<EXCHANGE_RATES_HEADER>> \o DataRows(SubSeq(data, Len(data), Len(data))))

\* CurrencyConverter._write_exchange_rates_file: the file system afterwards
_write_exchange_rates_file(path, d, data) ==
    IF path = None THEN d
    ELSE File(<<EXCHANGE_RATES_HEADER>> \o DataRows(data))

----------------------------------------------------------------------------
(* Endpoint selection: the head of _query_hmrc_api *)

RECURSIVE Join(_)
\* "".join(chars): the text as one string
Join(s) == IF s = <<>> THEN "" ELSE s[1] \o Join(Tail(s))

crawl_slugs ==
    << <<2015, "20220504145914">>, <<2016, "20220505063703">>,
       <<2017, "20220409150415">>, <<2018, "20220409144223">>,
       <<2019, "20220409162528">>, <<2020, "20220505131656">> >>

\* year before month, as "%y%m" would give
StrftimeMonthYear2_swapped(date) == Join(Pad(date.year % 100, 2) \o Pad(date.month, 2))

\* date.strftime("%m%y")
StrftimeMonthYear2(date) == Join(Pad(date.month, 2) \o Pad(date.year % 100, 2))
\* date.strftime("%Y-%m")
StrftimeYearMonth(date) == Join(Pad(date.year, 4) \o <<"-">> \o Pad(date.month, 2))

ArchivePrefix == "https://webarchive.nationalarchives.gov.uk/ukgwa/"
TariffPrefix == "https://www.trade-tariff.service.gov.uk/api/v2/"

\* the cutoff year itself still sent to the archive (<= for <)
resource_for_offbyone(date) ==
    IF date.year <= NEW_ENDPOINT_FROM_YEAR
    THEN IF ~DictHas(crawl_slugs, date.year) THEN Raise("KeyError")
         ELSE Return(<<ArchivePrefix, DictGet(crawl_slugs, date.year), "mp_/",
                       "http://www.hmrc.gov.uk/softwaredevelopers/rates/",
                       "exrates-monthly-", StrftimeMonthYear2(date), ".xml">>)
    ELSE Return(<<TariffPrefix, "exchange_rates/files/monthly_xml_",
                  StrftimeYearMonth(date), ".xml">>)

\* the url of _query_hmrc_api as the parts of its f-strings, or the KeyError
\* of crawl_slugs[date.year]
resource_for(date) ==
    IF date.year < NEW_ENDPOINT_FROM_YEAR
    THEN IF ~DictHas(crawl_slugs, date.year) THEN Raise("KeyError")
         ELSE Return(<<ArchivePrefix, DictGet(crawl_slugs, date.year), "mp_/",
                       "http://www.hmrc.gov.uk/softwaredevelopers/rates/",
                       "exrates-monthly-", StrftimeMonthYear2(date), ".xml">>)
    ELSE Return(<<TariffPrefix, "exchange_rates/files/monthly_xml_",
                  StrftimeYearMonth(date), ".xml">>)

----------------------------------------------------------------------------
(* The fetch: the rest of _query_hmrc_api *)

\* A response of session.get: error is a transport failure (the call raised),
\* ok is response.ok, rows are the children of the root of response.text, each
\* with the text of its currencyCode and rateNew child, None where
\* row.find(..) found no child or the child has no text.
TransportFailure == [error |-> TRUE, ok |-> FALSE, rows |-> <<>>]
BadStatus == [error |-> FALSE, ok |-> FALSE, rows |-> <<>>]
\* a failure status whose body is a document all the same
BadStatusWith(rows) == [error |-> FALSE, ok |-> FALSE, rows |-> rows]
Body(rows) == [error |-> FALSE, ok |-> TRUE, rows |-> rows]
XmlRow(code, rate) == [currencyCode |-> code, rateNew |-> rate]

\* the dict comprehension of lines 131-136, row by row
RECURSIVE ParseRows(_, _)
ParseRows(rows, rates) ==
    IF rows = <<>> THEN Return(rates)
    ELSE LET key == Upper(Str(rows[1].currencyCode))
             text == Str(rows[1].rateNew)
         IN IF ~IsDecimalText(text) THEN Raise("InvalidOperation")
            ELSE ParseRows(Tail(rows), DictSet(rates, key, DecimalOf(text)))

\* what the frame keeps of a response once it is parsed: how the GET ended
\* and whether some row lacked a child
Digest(resp) ==
    [got |-> TRUE, error |-> resp.error, ok |-> resp.ok,
     missing_code |-> \E i \in 1..Len(resp.rows) : resp.rows[i].currencyCode = None,
     missing_rate |-> \E i \in 1..Len(resp.rows) : resp.rows[i].rateNew = None]

\* no GET was issued
NoResponse == [got |-> FALSE, error |-> FALSE, ok |-> FALSE,
               missing_code |-> FALSE, missing_rate |-> FALSE]

\* None in rates or None in rates.values()
NoneInRates(rates) ==
    \/ DictHas(rates, None)
    \/ \E i \in 1..Len(rates) : rates[i][2] = None

\* a transport failure swallowed and taken for an empty document
ResponseRates_swallow(resp) ==
    IF resp.error THEN Return(EmptyDict)
    ELSE IF ~resp.ok THEN Raise("ParsingError")
    ELSE LET parsed == ParseRows(resp.rows, EmptyDict)
         IN IF parsed.kind = "raise" THEN parsed
            ELSE IF NoneInRates(parsed.value) THEN Raise("ParsingError")
            ELSE parsed

\* the status check of lines 125-128 left out: the body is parsed whatever
\* the status
ResponseRates_anystatus(resp) ==
    IF resp.error THEN Raise("ParsingError")
    ELSE LET parsed == ParseRows(resp.rows, EmptyDict)
         IN IF parsed.kind = "raise" THEN parsed
            ELSE IF NoneInRates(parsed.value) THEN Raise("ParsingError")
            ELSE parsed

\* _query_hmrc_api from the response on (lines 115-138): the rates to store,
\* or the exception raised
ResponseRates(resp) ==
    IF resp.error THEN Raise("ParsingError")
    ELSE IF ~resp.ok THEN Raise("ParsingError")
    ELSE LET parsed == ParseRows(resp.rows, EmptyDict)
         IN IF parsed.kind = "raise" THEN parsed
            ELSE IF NoneInRates(parsed.value) THEN Raise("ParsingError")
            ELSE parsed

----------------------------------------------------------------------------
(* The lookup: the tail of currency_to_gbp_rate, and to_gbp *)

\* the check of line 148 left out: the subscript of line 150 raises KeyError
RateLookup_unchecked(cache_, currency, date) ==
    IF ~DictHas(DictGet(cache_, date), currency)
    THEN RaiseWith("KeyError", <<currency>>)
    ELSE Return(DictGet(DictGet(cache_, date), currency))

\* lines 148-150
RateLookup(cache_, currency, date) ==
    IF ~DictHas(DictGet(cache_, date), currency)
    THEN RaiseWith("ExchangeRateMissingError", <<currency, date>>)
    ELSE Return(DictGet(DictGet(cache_, date), currency))

\* to_gbp returning the rate instead of amount / rate
CallResult_rate(op, amount, code, date, cache_) == RateLookup(cache_, code, date)

\* what the running call returns once the date is in the cache: the rate for
\* currency_to_gbp_rate, amount / rate for to_gbp
CallResult(op, amount, code, date, cache_) ==
    LET r == RateLookup(cache_, code, date)
    IN IF op = "to_gbp" /\ r.kind = "return" THEN DecimalDiv(amount, r.value)
       ELSE r

----------------------------------------------------------------------------
(* Inputs *)

MaxFetches == 2      \* successful fetches explored per instance
MaxRows == 2         \* rows in a response body

USD == <<"U","S","D">>
EUR == <<"E","U","R">>
GBP == <<"G","B","P">>
eur == <<"e","u","r">>

PATH == <<"r","a","t","e","s",".","c","s","v">>

D2014 == Date(2014, 12, 1)    \* before the first archived year
D2016 == Date(2016, 12, 1)    \* an archived year
D2021a == Date(2021, 1, 1)    \* the first month of the new endpoint
D2021b == Date(2021, 1, 15)   \* another day of that month
Dates == {D2014, D2016, D2021a, D2021b}

Currencies == {USD, eur, GBP}
Amounts == {Dec(<<"3">>, 0), Dec(<<"1","5">>, 0 - 1)}

\* the rows a response is made of: a complete row, a row with no
\* currencyCode child, a row with no rateNew child
XmlRows == { XmlRow(USD, <<"1",".","5","0">>),
             XmlRow(None, <<"2">>),
             XmlRow(EUR, None) }

RECURSIVE SeqsUpTo(_, _)
SeqsUpTo(S, n) ==
    IF n = 0 THEN {<<>>}
    ELSE LET shorter == SeqsUpTo(S, n - 1)
         IN shorter \cup {Append(q, x) : q \in shorter, x \in S}

\* a transport failure, a failure status (with no document, or with a
\* document of one row), or a document of 1..MaxRows rows
Responses ==
    {TransportFailure, BadStatus}
    \cup {BadStatusWith(<<r>>) : r \in XmlRows}
    \cup {Body(b) : b \in SeqsUpTo(XmlRows, MaxRows) \ {<<>>}}

\* initial_data: absent, or a month with a lower-case code, a GBP entry and
\* a zero rate
Seed == << <<D2021a, << <<eur, Dec(<<"1","5">>, 0 - 1)>>,
                         <<GBP, Dec(<<"2">>, 0)>>,
                         <<USD, Dec(<<"0">>, 0)>> >> >> >>
Seeds == {None, Seed}

\* a file as an earlier run or a hand edit left it
StoredFile ==
    File(<< EXCHANGE_RATES_HEADER,
            <<IsoFormat(D2021a), USD, <<"1",".","5","0">> >>,
            <<IsoFormat(D2016), eur, <<"0",".","0","5">> >>,
            <<IsoFormat(D2016), USD, <<"1",".","2">> >> >>)
InitialDisks == {NoFile, StoredFile}

NoFrame == [op |-> "none", amount |-> None, currency |-> None, code |-> None,
            date |-> None, url |-> None, response |-> NoResponse, rates |-> None,
            fetched |-> FALSE]

\* lines 139 and 140 swapped: the file is written before the rates are stored
NextPc_writefirst(p) ==
    CASE p = "query" -> "write"
      [] p = "write" -> "insert"
      [] p = "insert" -> "lookup"
      [] OTHER -> "idle"

\* The order of the statements that follow a parsed response: line 139 stores
\* the rates, line 140 writes the file, then _query_hmrc_api returns to line 148
NextPc(p) ==
    CASE p = "query" -> "insert"
      [] p = "insert" -> "write"
      [] p = "write" -> "lookup"
      [] OTHER -> "idle"

----------------------------------------------------------------------------
(* The converter *)

Init ==
    /\ \/ exchange_rates_file = None /\ disk = StoredFile
       \/ exchange_rates_file = PATH /\ disk \in InitialDisks
    /\ cache = EmptyDict
    /\ pc = "new"
    /\ frame = NoFrame
    /\ result = Return(None)
    /\ gets = 0
    /\ fetches = 0
    /\ before = [cache |-> EmptyDict, disk |-> disk]

\* CurrencyConverter.__init__
__init__(initial_data) ==
    /\ pc = "new"
    /\ LET read_data == _read_exchange_rates_file(exchange_rates_file, disk)
       IN IF read_data.kind = "raise"
          THEN /\ result' = read_data
               /\ pc' = "failed"
               /\ cache' = cache
          ELSE /\ result' = Return(None)
               /\ pc' = "idle"
               /\ cache' = DictMerge(read_data.value,
                              IF initial_data = None THEN EmptyDict ELSE initial_data)
    /\ frame' = [NoFrame EXCEPT !.op = "__init__", !.rates = initial_data]
    /\ gets' = 0
    /\ fetches' = 0
    /\ before' = [cache |-> cache, disk |-> disk]
    /\ UNCHANGED <<exchange_rates_file, disk>>

\* the fetch also called when the date is cached and the code is not
Enter_fetchforcode(op, amount, currency, code, date) ==
    /\ pc = "idle"
    /\ DictHas(cache, date) \/ fetches < MaxFetches
    /\ frame' = [NoFrame EXCEPT !.op = op, !.amount = amount, !.currency = currency,
                                !.code = code, !.date = date]
    /\ gets' = 0
    /\ before' = [cache |-> cache, disk |-> disk]
    /\ IF DictHas(cache, date) /\ DictHas(DictGet(cache, date), code)
       THEN /\ result' = CallResult(op, amount, code, date, cache)
            /\ pc' = "idle"
       ELSE /\ result' = result
            /\ pc' = "query"
    /\ UNCHANGED <<exchange_rates_file, disk, cache, fetches>>

\* the cache looked up by the first day of the month of the date
Enter_firstofmonth(op, amount, currency, code, date) ==
    /\ pc = "idle"
    /\ DictHas(cache, Date(date.year, date.month, 1)) \/ fetches < MaxFetches
    /\ frame' = [NoFrame EXCEPT !.op = op, !.amount = amount, !.currency = currency,
                                !.code = code, !.date = date]
    /\ gets' = 0
    /\ before' = [cache |-> cache, disk |-> disk]
    /\ IF DictHas(cache, Date(date.year, date.month, 1))
       THEN /\ result' = CallResult(op, amount, code, Date(date.year, date.month, 1), cache)
            /\ pc' = "idle"
       ELSE /\ result' = result
            /\ pc' = "query"
    /\ UNCHANGED <<exchange_rates_file, disk, cache, fetches>>

\* currency_to_gbp_rate up to the call of _query_hmrc_api (lines 144-147), for
\* the call op(amount, .., date) looking up code; a hit goes on to line 148
Enter(op, amount, currency, code, date) ==
    /\ pc = "idle"
    /\ DictHas(cache, date) \/ fetches < MaxFetches
    /\ frame' = [NoFrame EXCEPT !.op = op, !.amount = amount, !.currency = currency,
                                !.code = code, !.date = date]
    /\ gets' = 0
    /\ before' = [cache |-> cache, disk |-> disk]
    /\ IF DictHas(cache, date)
       THEN /\ result' = CallResult(op, amount, code, date, cache)
            /\ pc' = "idle"
       ELSE /\ result' = result
            /\ pc' = "query"
    /\ UNCHANGED <<exchange_rates_file, disk, cache, fetches>>

\* CurrencyConverter.currency_to_gbp_rate, called by the user
currency_to_gbp_rate(currency, date) ==
    Enter("currency_to_gbp_rate", None, currency, currency, date)

\* to_gbp without the shortcut of lines 154-155
to_gbp_noidentity(amount, currency, date) ==
    Enter("to_gbp", amount, currency, Upper(currency), date)

\* CurrencyConverter.to_gbp
to_gbp(amount, currency, date) ==
    IF currency = GBP
    THEN /\ pc = "idle"
         /\ frame' = [NoFrame EXCEPT !.op = "to_gbp", !.amount = amount,
                                     !.currency = currency, !.date = date]
         /\ gets' = 0
         /\ before' = [cache |-> cache, disk |-> disk]
         /\ result' = Return(amount)
         /\ UNCHANGED <<exchange_rates_file, disk, cache, pc, fetches>>
    ELSE Enter("to_gbp", amount, currency, Upper(currency), date)

\* a failed GET or a response that does not parse tried again: the call
\* stays at the GET
Query_retry(resp) ==
    /\ pc = "query"
    /\ LET url == resource_for(frame.date)
       IN IF url.kind = "raise"
          THEN /\ result' = url
               /\ pc' = "idle"
               /\ UNCHANGED <<frame, gets>>
          ELSE LET rates == ResponseRates(resp)
               IN /\ gets' = gets + 1
                  /\ IF rates.kind = "raise"
                     THEN /\ result' = result
                          /\ pc' = "query"
                          /\ frame' = [frame EXCEPT !.url = url.value, !.response = Digest(resp)]
                     ELSE /\ result' = result
                          /\ pc' = NextPc(pc)
                          /\ frame' = [frame EXCEPT !.url = url.value, !.response = Digest(resp),
                                                    !.rates = rates.value]
    /\ UNCHANGED <<exchange_rates_file, disk, cache, fetches, before>>

\* _query_hmrc_api, lines 93-138: the url, the GET and the parsing of its
\* response
Query(resp) ==
    /\ pc = "query"
    /\ LET url == resource_for(frame.date)
       IN IF url.kind = "raise"
          THEN /\ result' = url
               /\ pc' = "idle"
               /\ UNCHANGED <<frame, gets>>
          ELSE LET rates == ResponseRates(resp)
               IN /\ gets' = gets + 1
                  /\ IF rates.kind = "raise"
                     THEN /\ result' = rates
                          /\ pc' = "idle"
                          /\ frame' = [frame EXCEPT !.url = url.value, !.response = Digest(resp)]
                     ELSE /\ result' = result
                          /\ pc' = NextPc(pc)
                          /\ frame' = [frame EXCEPT !.url = url.value, !.response = Digest(resp),
                                                    !.rates = rates.value]
    /\ UNCHANGED <<exchange_rates_file, disk, cache, fetches, before>>

\* line 139 as self.cache = {date: rates}: the table replaced, not extended
Insert_replace ==
    /\ pc = "insert"
    /\ cache' = DictSet(EmptyDict, frame.date, frame.rates)
    /\ pc' = NextPc(pc)
    /\ UNCHANGED <<exchange_rates_file, disk, frame, result, gets, fetches, before>>

\* line 139: self.cache[date] = rates
Insert ==
    /\ pc = "insert"
    /\ cache' = DictSet(cache, frame.date, frame.rates)
    /\ pc' = NextPc(pc)
    /\ UNCHANGED <<exchange_rates_file, disk, frame, result, gets, fetches, before>>

\* line 140: self._write_exchange_rates_file(self.exchange_rates_file, self.cache)
Write ==
    /\ pc = "write"
    /\ disk' = _write_exchange_rates_file(exchange_rates_file, disk, cache)
    /\ fetches' = fetches + 1
    /\ frame' = [frame EXCEPT !.fetched = TRUE]
    /\ pc' = NextPc(pc)
    /\ UNCHANGED <<exchange_rates_file, cache, result, gets, before>>

\* back in currency_to_gbp_rate after the fetch: lines 148-150, and the
\* division of to_gbp
Lookup ==
    /\ pc = "lookup"
    /\ result' = CallResult(frame.op, frame.amount, frame.code, frame.date, cache)
    /\ pc' = NextPc(pc)
    /\ UNCHANGED <<exchange_rates_file, disk, cache, frame, gets, fetches, before>>

Next ==
    \/ \E seed \in Seeds : __init__(seed)
    \/ \E c \in Currencies, d \in Dates : currency_to_gbp_rate(c, d)
    \/ \E a \in Amounts, c \in Currencies, d \in Dates : to_gbp(a, c, d)
    \/ \E resp \in Responses : Query(resp)
    \/ Insert
    \/ Write
    \/ Lookup

Spec == Init /\ [][Next]_vars

----------------------------------------------------------------------------
(* Endpoint selection on its own: resource_for applied to every month of   *)
(* the years around the archived range.                                    *)

YearsBefore == 2   \* years explored below the first archived year
YearsAfter == 2    \* years explored from the new endpoint's first year on

FirstArchivedYear == crawl_slugs[1][1]
UrlDates ==
    {Date(y, m, d) : y \in (FirstArchivedYear - YearsBefore)..(NEW_ENDPOINT_FROM_YEAR + YearsAfter),
                     m \in 1..12, d \in {1, 28}}

InitUrl ==
    /\ exchange_rates_file = None
    /\ disk = NoFile
    /\ cache = EmptyDict
    /\ pc = "url"
    /\ \E d \in UrlDates : frame = [NoFrame EXCEPT !.op = "resource_for", !.date = d]
    /\ result = Return(None)
    /\ gets = 0
    /\ fetches = 0
    /\ before = [cache |-> EmptyDict, disk |-> NoFile]

\* lines 93-114 of _query_hmrc_api, for the date of the frame
SelectEndpoint ==
    /\ pc = "url"
    /\ result' = resource_for(frame.date)
    /\ pc' = "url_done"
    /\ UNCHANGED <<exchange_rates_file, disk, cache, frame, gets, fetches, before>>

NextUrl == SelectEndpoint

SpecUrl == InitUrl /\ [][NextUrl]_vars

----------------------------------------------------------------------------
(* Persistence on its own: Save and Load applied to tables and to files.   *)

MaxMonths == 2      \* months of a table that is saved
MaxCodes == 2       \* currencies under a month of such a table
MaxDataRows == 3    \* data rows of a file that is loaded

\* the dicts of at most n entries with keys from K and values from V
RECURSIVE DictsOver(_, _, _)
DictsOver(K, V, n) ==
    IF n = 0 THEN {EmptyDict}
    ELSE LET smaller == DictsOver(K, V, n - 1)
         IN smaller \cup
            UNION {{Append(q, <<k, v>>) : k \in K \ DictKeys(q), v \in V} :
                   q \in {r \in smaller : Len(r) = n - 1}}

TableRates == {Dec(<<"1","5","0">>, 0 - 2), Dec(<<"5">>, 0 - 2)}
Tables == DictsOver({D2016, D2021a}, DictsOver({USD, eur}, TableRates, MaxCodes), MaxMonths)

TypoHeader == <<MONTH, CURRENCY, <<"r","a","t">> >>
FileRows == { <<IsoFormat(D2021a), USD, <<"1",".","5","0">> >>,
              <<IsoFormat(D2016), eur, <<"0",".","0","5">> >>,
              <<IsoFormat(D2021a), USD>> }
Files == {File(<<h>> \o rows) : h \in {EXCHANGE_RATES_HEADER, TypoHeader},
                                rows \in SeqsUpTo(FileRows, MaxDataRows)}

InitFile ==
    /\ exchange_rates_file = PATH
    /\ \/ cache \in Tables /\ disk = NoFile
       \/ cache = EmptyDict /\ disk \in Files
    /\ pc = "file"
    /\ frame = NoFrame
    /\ result = Return(None)
    /\ gets = 0
    /\ fetches = 0
    /\ before = [cache |-> EmptyDict, disk |-> NoFile]

\* Save(path, table): _write_exchange_rates_file with the table
Save ==
    /\ pc = "file"
    /\ disk' = _write_exchange_rates_file(exchange_rates_file, disk, cache)
    /\ pc' = "saved"
    /\ UNCHANGED <<exchange_rates_file, cache, frame, result, gets, fetches, before>>

\* Load(path): _read_exchange_rates_file, of the file as found or as just saved
Load ==
    /\ pc \in {"file", "saved"}
    /\ result' = _read_exchange_rates_file(exchange_rates_file, disk)
    /\ pc' = IF pc = "saved" THEN "reloaded" ELSE "loaded"
    /\ UNCHANGED <<exchange_rates_file, disk, cache, frame, gets, fetches, before>>

NextFile == Save \/ Load

SpecFile == InitFile /\ [][NextFile]_vars

----------------------------------------------------------------------------
(* Construction on its own: __init__ applied to files and seed mappings.   *)

\* a seed for a month of the files, with a code none of their rows has
SeedOther == << <<D2021a, << <<EUR, Dec(<<"3">>, 0)>> >> >> >>
InitialDatas == {None, Seed, SeedOther}

InitConstruct ==
    /\ exchange_rates_file = PATH
    /\ disk \in Files \cup {NoFile}
    /\ cache = EmptyDict
    /\ pc = "new"
    /\ frame = NoFrame
    /\ result = Return(None)
    /\ gets = 0
    /\ fetches = 0
    /\ before = [cache |-> EmptyDict, disk |-> disk]

NextConstruct == \E initial_data \in InitialDatas : __init__(initial_data)

SpecConstruct == InitConstruct /\ [][NextConstruct]_vars

----------------------------------------------------------------------------
(* Restarts: the process ends and a converter is constructed again on the  *)
(* same path, over and over. No seed mapping is given, so that the table   *)
(* holds only what was loaded or fetched.                                  *)

RestartDates == {D2016, D2021a}
RestartResponses == {BadStatus, Body(<<XmlRow(USD, <<"1",".","5","0">>)>>)}

InitRestart ==
    /\ exchange_rates_file = PATH
    /\ disk \in InitialDisks
    /\ cache = EmptyDict
    /\ pc = "new"
    /\ frame = NoFrame
    /\ result = Return(None)
    /\ gets = 0
    /\ fetches = 0
    /\ before = [cache |-> EmptyDict, disk |-> disk]

\* The instance is dropped between two calls; the file stays. Until __init__
\* runs again, cache is the table of the instance that ended.
Restart ==
    /\ pc = "idle"
    /\ pc' = "new"
    /\ UNCHANGED <<exchange_rates_file, disk, cache, frame, result, gets, fetches, before>>

NextRestart ==
    \/ __init__(None)
    \/ \E d \in RestartDates : currency_to_gbp_rate(USD, d)
    \/ \E resp \in RestartResponses : Query(resp)
    \/ Insert
    \/ Write
    \/ Lookup
    \/ Restart

SpecRestart == InitRestart /\ [][NextRestart]_vars

----------------------------------------------------------------------------
(* Properties *)

\* two tables with the same month keys, the same codes under each month and
\* the same rate for each pair
SameTable(a, b) ==
    /\ DictKeys(a) = DictKeys(b)
    /\ \A m \in DictKeys(a) :
          /\ DictKeys(DictGet(a, m)) = DictKeys(DictGet(b, m))
          /\ \A c \in DictKeys(DictGet(a, m)) :
                DictGet(DictGet(a, m), c) = DictGet(DictGet(b, m), c)

\* C1: a table that is saved and then loaded from the file just written comes
\* back with the same months, the same codes under each month and the same rates.
C1_RoundTrip ==
    pc = "reloaded" => result.kind = "return" /\ SameTable(result.value, cache)

\* the running or last call issued its GET and the GET itself failed
TransportFailed == frame.response.got /\ frame.response.error

\* C2: when the GET of a lookup that missed the cache fails in transport, the
\* call ends raising ParsingError, with the cache and the file as they were
\* when the call started.
C2_TransportFailureLeavesState ==
    TransportFailed =>
        /\ pc = "idle"
        /\ Raised(result, "ParsingError")
        /\ cache = before.cache
        /\ disk = before.disk

\* a transport failure met by a converter that holds rates and has a file
C2_Witness ==
    /\ TransportFailed
    /\ pc = "idle"
    /\ Raised(result, "ParsingError")
    /\ cache # EmptyDict
    /\ exchange_rates_file # None /\ disk.is_file

\* the response was received with a success status and some row of it lacks
\* its currencyCode or its rateNew child
IncompleteRow ==
    /\ frame.response.got /\ ~frame.response.error /\ frame.response.ok
    /\ frame.response.missing_code \/ frame.response.missing_rate

\* C3: a response with a row that lacks its currencyCode or rateNew child makes
\* the fetch fail with ParsingError; the date is not stored and the file is
\* not rewritten.
C3_IncompleteRowRejected ==
    IncompleteRow =>
        /\ pc = "idle"
        /\ Raised(result, "ParsingError")
        /\ ~DictHas(cache, frame.date)
        /\ disk = before.disk

\* the last call fetched its date and the currency asked for was not in the
\* rates fetched
FetchedWithout == pc = "idle" /\ frame.fetched /\ ~DictHas(frame.rates, frame.code)

\* C4: a lookup whose fetch succeeds without the currency asked for raises
\* ExchangeRateMissingError(currency, date), and every currency that was
\* fetched is then found under that date with the fetched rate.
C4_MissingCurrencyOthersResolvable ==
    FetchedWithout =>
        /\ result = RaiseWith("ExchangeRateMissingError", <<frame.code, frame.date>>)
        /\ \A c2 \in DictKeys(frame.rates) :
              RateLookup(cache, c2, frame.date) = Return(DictGet(frame.rates, c2))

C4_Witness ==
    /\ FetchedWithout
    /\ frame.op = "currency_to_gbp_rate"
    /\ USD \in DictKeys(frame.rates)
    /\ Raised(result, "ExchangeRateMissingError")

\* the cache holds the fetched rates under the date of the call
Stored == DictHas(cache, frame.date) /\ DictGet(cache, frame.date) = frame.rates

\* the file of a converter that has a path holds the header and a row for
\* every fetched rate of the date of the call
Persisted ==
    exchange_rates_file # None =>
        /\ disk.is_file
        /\ disk.rows[1] = EXCHANGE_RATES_HEADER
        /\ \A c2 \in DictKeys(frame.rates) :
              <<IsoFormat(frame.date), c2, DecimalStr(DictGet(frame.rates, c2))>>
                  \in Range(disk.rows)

\* C5: after a successful fetch the rates are stored in the cache while the
\* file is still the old one, then the file is rewritten, and only then does
\* the lookup return, with the fetched rate of the currency.
C5_StoreThenPersistThenReturn ==
    /\ pc = "insert" => cache = before.cache /\ disk = before.disk
    /\ pc = "write" => Stored /\ disk = before.disk
    /\ pc = "lookup" => Stored /\ Persisted
    /\ (pc = "idle" /\ frame.fetched) =>
          /\ Stored /\ Persisted
          /\ (frame.op = "currency_to_gbp_rate" /\ DictHas(frame.rates, frame.code)) =>
                result = Return(DictGet(frame.rates, frame.code))

C5_Witness ==
    /\ pc = "idle" /\ frame.fetched
    /\ frame.op = "currency_to_gbp_rate"
    /\ exchange_rates_file # None
    /\ before.cache # EmptyDict
    /\ result = Return(Dec(<<"1","5","0">>, 0 - 2))

\* the running or last call is to_gbp(amount, "GBP", date)
GbpCall == frame.op = "to_gbp" /\ frame.currency = GBP

\* C6: to_gbp(amount, "GBP", date) returns amount at once: no GET is issued
\* and the cache and the file stay as they were, whatever the cache holds.
C6_GbpIdentity ==
    GbpCall =>
        /\ pc = "idle"
        /\ result = Return(frame.amount)
        /\ gets = 0
        /\ cache = before.cache
        /\ disk = before.disk

\* a GBP conversion for a date the populated cache does not hold
C6_Witness ==
    /\ GbpCall
    /\ pc = "idle"
    /\ cache # EmptyDict
    /\ ~DictHas(cache, frame.date)
    /\ result = Return(frame.amount)

\* the last call was to_gbp(amount, c, d) and the table holds a rate under d
\* for c as it was passed
ConvertedHeld ==
    /\ pc = "idle" /\ frame.op = "to_gbp"
    /\ DictHas(cache, frame.date)
    /\ DictHas(DictGet(cache, frame.date), frame.currency)
HeldRate == DictGet(DictGet(cache, frame.date), frame.currency)

\* C7 as claimed: whenever the table holds a rate r under table[d][c],
\* to_gbp(amount, c, d) returns amount / r.
C7_AnyHeldRate ==
    ConvertedHeld => result = Return(Quotient(frame.amount, HeldRate))

\* C7: whenever the table holds a nonzero rate r under table[d][c] for a code c
\* other than GBP that is its own upper-case form, to_gbp(amount, c, d) returns
\* amount / r.
C7_UpperCaseHeldRate ==
    (/\ ConvertedHeld
     /\ frame.currency # GBP
     /\ Upper(frame.currency) = frame.currency
     /\ ~IsZero(HeldRate)) =>
        result = Return(Quotient(frame.amount, HeldRate))

\* a conversion by a rate that was loaded from the file
C7_Witness ==
    /\ ConvertedHeld
    /\ frame.currency = USD
    /\ fetches = 0
    /\ frame.date = D2016
    /\ result = Return(<<"Fraction", 5, 2>>)

\* C8 as claimed: endpoint selection returns a locator for every date.
C8_NeverFails ==
    pc = "url_done" => result.kind = "return"

\* C8: endpoint selection returns a locator for every date from 2015 on, and
\* fails with KeyError for every date before 2015.
C8_FailsOnlyBefore2015 ==
    pc = "url_done" =>
        IF frame.date.year >= 2015 THEN result.kind = "return"
        ELSE Raised(result, "KeyError")

C8_Witness ==
    /\ pc = "url_done"
    /\ frame.date.year = 2015
    /\ result.kind = "return"
    /\ ArchivePrefix \in Range(result.value)

\* the two digits of n % 100
TwoDigits(n) == DigitChar((n \div 10) % 10) \o DigitChar(n % 10)
FourDigits(n) == TwoDigits(n \div 100) \o TwoDigits(n)
SlugOfYear(y) ==
    CASE y = 2015 -> "20220504145914" [] y = 2016 -> "20220505063703"
      [] y = 2017 -> "20220409150415" [] y = 2018 -> "20220409144223"
      [] y = 2019 -> "20220409162528" [] y = 2020 -> "20220505131656"
Slugs == {SlugOfYear(y) : y \in 2015..2020}

\* C9: the year alone selects the endpoint: from 2015 to 2020 the locator is
\* on the archive host with the crawl slug of that year and the MMYY token,
\* from 2021 on it is on the tariff host with the YYYY-MM token and no slug.
C9_EndpointByYear ==
    pc = "url_done" =>
        LET y == frame.date.year
            m == frame.date.month
            url == result.value
        IN /\ (2015 <= y /\ y < 2021) =>
                /\ result.kind = "return"
                /\ url[1] = ArchivePrefix
                /\ Range(url) \cap Slugs = {SlugOfYear(y)}
                /\ TwoDigits(m) \o TwoDigits(y) \in Range(url)
                /\ TariffPrefix \notin Range(url)
           /\ y >= 2021 =>
                /\ result.kind = "return"
                /\ url[1] = TariffPrefix
                /\ FourDigits(y) \o "-" \o TwoDigits(m) \in Range(url)
                /\ Range(url) \cap Slugs = {}
                /\ ArchivePrefix \notin Range(url)
           /\ frame.date = D2016 =>
                "20220505063703" \in Range(url) /\ "1216" \in Range(url)
           /\ frame.date = D2021a =>
                "2021-01" \in Range(url) /\ url[1] = TariffPrefix

C9_Witness ==
    /\ pc = "url_done"
    /\ frame.date = D2016
    /\ result.kind = "return"
    /\ "1216" \in Range(result.value)

\* the file has at least one data row, and its header is not the three
\* columns or one of its data rows has fewer cells than columns
BadFile ==
    /\ disk.is_file
    /\ Len(disk.rows) >= 2
    /\ \/ Range(disk.rows[1]) # Range(EXCHANGE_RATES_HEADER)
       \/ \E i \in 2..Len(disk.rows) : Len(disk.rows[i]) < Len(EXCHANGE_RATES_HEADER)

\* C10: loading a file whose header is not the columns month, currency, rate,
\* or that has a data row lacking a column, raises ParsingError, however many
\* data rows the file has and wherever the bad row stands.
C10_BadFileRejected ==
    (pc = "loaded" /\ BadFile) => Raised(result, "ParsingError")

\* the calls a user makes on a converter
UserCalls == {"currency_to_gbp_rate", "to_gbp"}

\* the last step constructed the converter and there was no file to load:
\* the path is None or no regular file is at the path
ConstructedWithoutFile ==
    /\ frame.op = "__init__"
    /\ exchange_rates_file = None \/ ~before.disk.is_file

\* construction without a file succeeds, with nothing in the table but what
\* initial_data supplies
ConstructedEmpty ==
    ConstructedWithoutFile =>
        /\ pc = "idle"
        /\ result = Return(None)
        /\ cache = (IF frame.rates = None THEN EmptyDict ELSE frame.rates)
        /\ disk = before.disk

\* a call for a currency other than GBP that starts on an empty table goes to
\* _query_hmrc_api for the date of the call, the table still empty
EmptyTableFetches ==
    (/\ pc = "idle" /\ cache = EmptyDict
     /\ frame'.op \in UserCalls /\ frame'.currency # GBP) =>
        /\ pc' = "query"
        /\ before'.cache = EmptyDict
        /\ cache' = EmptyDict

\* C11: constructing a converter whose path is None or names no regular file
\* gives an empty table and raises nothing; on that table a conversion of any
\* currency other than GBP, for any date, calls the fetch for that date.
C11_NoFileEmptyThenFetch ==
    []ConstructedEmpty /\ [][EmptyTableFetches]_vars

\* a conversion that went to the fetch on the empty table of a converter whose
\* path names no file
C11_Witness ==
    /\ pc = "query"
    /\ frame.op = "to_gbp"
    /\ exchange_rates_file = PATH /\ ~disk.is_file
    /\ cache = EmptyDict /\ before.cache = EmptyDict
    /\ fetches = 0

\* a file as _write_exchange_rates_file leaves it: the header, then rows of
\* an ISO date, a code and a decimal text
WellFormed(d) ==
    /\ d.is_file
    /\ Len(d.rows) >= 1 /\ d.rows[1] = EXCHANGE_RATES_HEADER
    /\ \A i \in 2..Len(d.rows) :
          /\ Len(d.rows[i]) = 3
          /\ IsIsoText(d.rows[i][1])
          /\ IsDecimalText(d.rows[i][3])

\* the converter was just constructed, from a file and a seed mapping
ConstructedFromBoth ==
    /\ frame.op = "__init__" /\ pc # "new"
    /\ WellFormed(before.disk)
    /\ frame.rates # None

\* the table holds rate r under month m and code c
Holds(table, m, c, r) ==
    /\ DictHas(table, m)
    /\ DictHas(DictGet(table, m), c)
    /\ DictGet(DictGet(table, m), c) = r

\* the seed supplies a rate for the pair (m, c)
Supplies(seed, m, c) == DictHas(seed, m) /\ DictHas(DictGet(seed, m), c)

\* the data rows of a file, the last row of a pair standing for the pair
FileDataRows(d) == {i \in 2..Len(d.rows) : d.rows[i] # <<>>}
LastOfPair(d, i) ==
    \A j \in FileDataRows(d) :
        (d.rows[j][1] = d.rows[i][1] /\ d.rows[j][2] = d.rows[i][2]) => j <= i

\* C12: after construction from a file and a seed, every pair the seed supplies
\* holds the seed's rate, and every pair of the file that the seed does not
\* supply holds the file's rate, also when the seed has other codes for the
\* month of the pair.
C12_MergePairwise ==
    ConstructedFromBoth =>
        /\ pc = "idle"
        /\ \A m \in DictKeys(frame.rates) : \A c \in DictKeys(DictGet(frame.rates, m)) :
              Holds(cache, m, c, DictGet(DictGet(frame.rates, m), c))
        /\ \A i \in FileDataRows(before.disk) :
              LET row == before.disk.rows[i]
              IN (LastOfPair(before.disk, i)
                  /\ ~Supplies(frame.rates, FromIsoFormat(row[1]), row[2])) =>
                     Holds(cache, FromIsoFormat(row[1]), row[2], DecimalOf(row[3]))

\* the running or last call got a response with a failure status
BadStatusGot == frame.response.got /\ ~frame.response.error /\ ~frame.response.ok

\* C13: when the GET of a fetch returns a failure status, the call ends
\* raising ParsingError; no rates were parsed from the body, and the cache and
\* the file are as they were when the call started.
C13_BadStatusLeavesState ==
    BadStatusGot =>
        /\ pc = "idle"
        /\ Raised(result, "ParsingError")
        /\ frame.rates = None /\ ~frame.fetched
        /\ gets = 1
        /\ cache = before.cache
        /\ disk = before.disk

\* a failure status whose body lacks a rate, met by a converter that holds
\* rates and has a file
C13_Witness ==
    /\ BadStatusGot /\ frame.response.missing_rate
    /\ pc = "idle"
    /\ Raised(result, "ParsingError")
    /\ cache # EmptyDict
    /\ exchange_rates_file # None /\ disk.is_file

\* every date of the table is still in it after the step, with the mapping it had
TableKept ==
    \A k \in DictKeys(cache) : DictHas(cache', k) /\ DictGet(cache', k) = DictGet(cache, k)

\* a step of a constructed converter changes the table only by storing, after
\* a response that was parsed, the rates of a date the table does not hold
InsertedOnce ==
    (pc # "new" /\ cache' # cache) =>
        /\ pc = "insert"
        /\ frame.response.got /\ frame.response.ok
        /\ ~DictHas(cache, frame.date)
        /\ cache' = Append(cache, <<frame.date, frame.rates>>)

\* C14: in the life of one converter the table only grows: a date once in it
\* is never removed, the mapping under it is never replaced or changed, and a
\* date is stored by a successful fetch at most once.
C14_TableOnlyGrows == [][TableKept /\ InsertedOnce]_vars

\* a table loaded from the file that two fetches have extended
C14_Witness ==
    /\ pc = "idle" /\ fetches = 2
    /\ Len(cache) = 3
    /\ DictHas(cache, D2016) /\ DictHas(cache, D2021a) /\ DictHas(cache, D2021b)

\* the (month, code, rate) triples of a table, in its insertion order
RECURSIVE Triples(_)
Triples(table) ==
    IF table = <<>> THEN <<>>
    ELSE [i \in 1..Len(table[1][2]) |->
             <<table[1][1], table[1][2][i][1], table[1][2][i][2]>>]
         \o Triples(Tail(table))

\* the file is the header row, then one row for each triple of the table, in
\* the order of the table
FileMirrorsTable ==
    LET triples == Triples(cache)
    IN /\ disk.is_file
       /\ Len(disk.rows) = 1 + Len(triples)
       /\ disk.rows[1] = EXCHANGE_RATES_HEADER
       /\ \A i \in 1..Len(triples) :
             disk.rows[i + 1] =
                 <<IsoFormat(triples[i][1]), triples[i][2], DecimalStr(triples[i][3])>>

\* C15: for a converter that has a path, once a fetch has succeeded the file
\* is the header row followed by exactly one row for each (month, code, rate)
\* of the whole table, in the table's order, in every later state, but for
\* the moment of a next fetch between storing its rates and writing the file.
C15_FileMirrorsTable ==
    (exchange_rates_file # None /\ fetches >= 1 /\ pc # "write") => FileMirrorsTable

\* a file that holds the rates of the seed and of two fetches
C15_Witness ==
    /\ pc = "idle" /\ fetches = 2
    /\ exchange_rates_file = PATH
    /\ Holds(cache, D2021a, GBP, Dec(<<"2">>, 0))
    /\ Len(disk.rows) >= 6
    /\ FileMirrorsTable

\* a step changes the file only at line 140 of a fetch whose response was
\* parsed and whose rates are stored, for a converter that has a path
WrittenByFetchOnly ==
    disk' # disk =>
        /\ pc = "write"
        /\ exchange_rates_file # None
        /\ frame.response.got /\ frame.response.ok
        /\ Stored

\* C16: the file is written only by a successful fetch: construction, a lookup
\* of a cached date (found or ending in ExchangeRateMissingError), a failed
\* fetch and every call on a converter without a path leave the file as it was.
C16_WrittenByFetchOnly == [][WrittenByFetchOnly]_vars

\* a successful fetch by a converter without a path, the file untouched
C16_Witness ==
    /\ pc = "idle" /\ frame.fetched
    /\ exchange_rates_file = None
    /\ DictHas(cache, frame.date) /\ ~DictHas(before.cache, frame.date)
    /\ disk = StoredFile

\* the GET of the running or last call failed: in transport, by its status,
\* or by a response whose parsing raised
GetFailed ==
    /\ frame.response.got
    /\ \/ frame.response.error
       \/ ~frame.response.ok
       \/ frame.response.missing_rate

\* C17: no call issues more than one GET, and when the GET or the parsing of
\* its response fails the call has ended, raising the error, with that one GET.
C17_NoRetry ==
    /\ gets <= 1
    /\ frame.response.got => gets = 1
    /\ GetFailed => pc = "idle" /\ result.kind = "raise" /\ ~frame.fetched

\* a response with a success status whose parsing raised, after one GET
C17_Witness ==
    /\ GetFailed /\ frame.response.ok
    /\ pc = "idle" /\ gets = 1
    /\ Raised(result, "InvalidOperation")
    /\ frame.op = "to_gbp"

\* the dates of a table that fall in the month of date d, on another day
Siblings(table, d) ==
    {d2 \in DictKeys(table) : d2.year = d.year /\ d2.month = d.month /\ d2.day # d.day}

\* the running or last call asked for a date the table did not hold, while
\* the table held another day of the same month
MissedBesideSibling ==
    /\ frame.op \in UserCalls /\ frame.currency # GBP
    /\ ~DictHas(before.cache, frame.date)
    /\ Siblings(before.cache, frame.date) # {}

\* the texts of the month column of the file
MonthColumn == {disk.rows[i][1] : i \in 2..Len(disk.rows)}

\* C18: the cache is keyed by the exact date: a call for a day of a month of
\* which the table holds only another day misses and issues its own fetch, and
\* when that fetch succeeds the table, and the file, hold both dates as two keys.
C18_KeyedByExactDate ==
    MissedBesideSibling =>
        /\ pc = "idle" => gets = 1
        /\ (pc = "idle" /\ frame.fetched) =>
              /\ DictHas(cache, frame.date)
              /\ Siblings(cache, frame.date) = Siblings(before.cache, frame.date)
              /\ Len(cache) = Len(before.cache) + 1
              /\ exchange_rates_file # None =>
                    /\ IsoFormat(frame.date) \in MonthColumn
                    /\ \A d2 \in Siblings(cache, frame.date) : IsoFormat(d2) \in MonthColumn

\* two days of January 2021, both fetched, both in the table and in the file
C18_Witness ==
    /\ MissedBesideSibling
    /\ pc = "idle" /\ frame.fetched /\ fetches = 2
    /\ ~DictHas(cache, D2016)
    /\ DictHas(cache, D2021a) /\ DictHas(cache, D2021b)
    /\ exchange_rates_file = PATH
    /\ {IsoFormat(D2021a), IsoFormat(D2021b)} \subseteq MonthColumn

\* the running or last call asked for a date the table held, and for a code
\* the mapping of that date did not hold
CachedWithoutCode ==
    /\ frame.op \in UserCalls /\ ~GbpCall
    /\ DictHas(before.cache, frame.date)
    /\ ~DictHas(DictGet(before.cache, frame.date), frame.code)

\* C20: only the absence of the date triggers a fetch: a lookup of a date the
\* table holds, for a code its mapping lacks, raises ExchangeRateMissingError
\* with no GET and with the cache and the file unchanged, each time it is made.
C20_MissingCodeNoFetch ==
    CachedWithoutCode =>
        /\ pc = "idle"
        /\ result = RaiseWith("ExchangeRateMissingError", <<frame.code, frame.date>>)
        /\ gets = 0 /\ ~frame.response.got
        /\ cache = before.cache
        /\ disk = before.disk

\* a lookup of a code that an earlier fetch of the date did not bring
C20_Witness ==
    /\ CachedWithoutCode
    /\ pc = "idle"
    /\ frame.op = "currency_to_gbp_rate" /\ frame.currency = eur
    /\ frame.date = D2021b /\ fetches >= 1
    /\ Raised(result, "ExchangeRateMissingError")
    /\ gets = 0

\* a converter was just constructed again on the path of an instance that
\* ended; before.cache is the table that instance had loaded and fetched
ConstructedAgain ==
    /\ frame.op = "__init__" /\ pc # "new"
    /\ before.cache # EmptyDict

\* C19: every rate an instance loaded from the file or returned after a
\* successful fetch is held, with the same rate, by every later instance
\* constructed on the path, so that it is returned without a fetch: a cycle of
\* load, fetch and save loses no entry.
C19_DurableAcrossRestarts ==
    ConstructedAgain =>
        /\ pc = "idle"
        /\ \A i \in 1..Len(Triples(before.cache)) :
              LET t == Triples(before.cache)[i]
              IN /\ DictHas(cache, t[1])
                 /\ RateLookup(cache, t[2], t[1]) = Return(t[3])

====
